---- MODULE Spec2Model ----
(***************************************************************************)
(* Model of the universal transforms of docutils                          *)
(* (docutils/transforms/universal.py): FinalChecks with its               *)
(* FinalCheckVisitor (reference resolution, transition placement),        *)
(* Messages, FilterMessages and TestMessages, run over a document tree.   *)
(*                                                                         *)
(* The document tree is an arena: node n has kind[n], children[n] (an     *)
(* ordered list of node numbers), parent[n] (None for no parent) and an   *)
(* attribute record attr[n].  All of it lives in the variable doc, the    *)
(* nodes.document object, together with nameids, ids and                  *)
(* transform_messages.  List positions are written 0-based as in the      *)
(* source; At(l, i) reads position i of a list.                           *)
(***************************************************************************)
EXTENDS Integers, Sequences, FiniteSets, TLC

VARIABLES
    doc,        \* the document: tree arena, nameids, ids, transform_messages
    stack,      \* frames of the running Node.walk: [snap, i]
    pc,         \* position of the running transform
    resolvers,  \* number of unknown_reference_resolvers of the transformer
    report_level, \* document.reporter['writer'].report_level
    doc0,       \* the document as it was before the transform started
    hist,       \* what the handlers did: one record per handler call
    io          \* the Output object, the Input object and their options

vars == <<doc, stack, pc, resolvers, report_level, doc0, hist, io>>

----------------------------------------------------------------------------
(* Bounds of the model *)

MaxTransNodes == 5   \* nodes below the root, trees of the transition family
MaxRefNodes == 3     \* nodes below the root, trees of the reference family
MaxMsgNodes == 3     \* nodes below the root, trees of the message family
MaxResolvers == 2    \* length of the unknown_reference_resolvers list
MaxPending == 2      \* entries of transform_messages before Messages runs
MaxTextLen == 2      \* characters of the text that is written and read

----------------------------------------------------------------------------
(* Values *)

None == 0            \* Python's None for node numbers and ids
NoName == "none"     \* an absent refname attribute

ERROR_LEVEL == 3     \* Reporter.ERROR_LEVEL
INFO_LEVEL == 1      \* Reporter.INFO_LEVEL
Levels == 1 .. 4     \* info, warning, error, severe
Thresholds == 1 .. 5 \* report_level; 5 reports nothing

RefKinds == {"reference", "footnote_reference", "citation_reference"}

Root == 1            \* the nodes.document node

\* The attributes of a node that the transforms read or write.
\* naming and base: what a "Hyperlink target ... is not referenced" message
\* names its target by, and the target (base_node) it is about.
NoNaming == [by |-> "", name |-> "", id |-> None]

NoAttr ==
    [refname |-> NoName, refid |-> None, resolved |-> FALSE,
     level |-> 0, text |-> "", ids |-> <<>>, backrefs |-> <<>>,
     names |-> <<>>, referenced |-> FALSE, rawsource |-> 0,
     naming |-> NoNaming, base |-> None]

----------------------------------------------------------------------------
(* Python lists, 0-based *)

At(l, i) == l[i + 1]

\* list.index(x): position of the first item equal to x
ListIndex(l, x) == (CHOOSE i \in 1 .. Len(l) :
                       l[i] = x /\ \A j \in 1 .. (i - 1) : l[j] # x) - 1

\* list.insert(i, x): x goes in front of position i
ListInsert(l, i, x) == SubSeq(l, 1, i) \o <<x>> \o SubSeq(l, i + 1, Len(l))

\* list.remove(x): drops the first item equal to x
ListRemove(l, x) ==
    LET i == ListIndex(l, x) IN SubSeq(l, 1, i) \o SubSeq(l, i + 2, Len(l))

\* l[i] = x
ListSet(l, i, x) == [l EXCEPT ![i + 1] = x]

InList(l, x) == \E i \in 1 .. Len(l) : l[i] = x

----------------------------------------------------------------------------
(* nodes.Element: the tree operations used by the transforms.  D is a     *)
(* document record, the result is the document after the call.            *)

Nodes(D) == 1 .. Len(D.kind)

\* Element.index(item)
ElementIndex(D, p, n) == ListIndex(D.children[p], n)

\* Element.insert(index, item): the item becomes a child of p
ElementInsert(D, p, i, n) ==
    [D EXCEPT !.children[p] = ListInsert(@, i, n), !.parent[n] = p]

\* Element.append / Element.__iadd__ with one node
ElementAppend(D, p, n) ==
    [D EXCEPT !.children[p] = Append(@, n), !.parent[n] = p]

\* Element.remove(item): the item keeps its parent attribute
ElementRemove(D, p, n) ==
    [D EXCEPT !.children[p] = ListRemove(@, n)]

\* Element.replace(old, new)
ElementReplace(D, p, old, new) ==
    [D EXCEPT !.children[p] = ListSet(@, ListIndex(@, old), new),
              !.parent[new] = p]

\* A node constructor: a fresh node without parent and children
NewNode(D, k, a) ==
    [D EXCEPT !.kind = Append(@, k), !.children = Append(@, <<>>),
              !.parent = Append(@, None), !.attr = Append(@, a)]

\* The node the last constructor call returned
Newest(D) == Len(D.kind)

\* Reporter.system_message: builds the system_message node and hands it to
\* the observer document.note_transform_message, which queues it.
ReporterMessage(D, lvl, txt) ==
    LET D1 == NewNode(D, "system_message",
                      [NoAttr EXCEPT !.level = lvl, !.text = txt])
    IN  [D1 EXCEPT !.transform_messages = Append(@, Newest(D1))]

\* document.set_id(node): a fresh id, recorded in document.ids and node['ids']
SetId(D, n) ==
    LET id == Len(D.ids) + 1
    IN  [D EXCEPT !.ids = Append(@, n), !.attr[n].ids = Append(@, id)]

\* The id set_id gave to n
LastId(D, n) == D.attr[n].ids[Len(D.attr[n].ids)]

\* Element.note_referenced_by
NoteReferencedBy(D, n) == [D EXCEPT !.attr[n].referenced = TRUE]

\* system_message.add_backref
AddBackref(D, n, id) == [D EXCEPT !.attr[n].backrefs = Append(@, id)]

\* document.nameids.get(refname)
NameidsGet(D, name) ==
    IF name \in DOMAIN D.nameids THEN D.nameids[name] ELSE None

\* Whether n is reachable from the root through children lists
RECURSIVE Attached(_, _, _)
Attached(D, n, fuel) ==
    IF n = Root THEN TRUE
    ELSE IF fuel = 0 \/ D.parent[n] = None THEN FALSE
    ELSE /\ InList(D.children[D.parent[n]], n)
         /\ Attached(D, D.parent[n], fuel - 1)

InTree(D, n) == Attached(D, n, Len(D.kind))

\* Node.traverse(): the nodes of the subtree of n in document order
RECURSIVE Traverse(_, _, _)
RECURSIVE TraverseList(_, _, _)
Traverse(D, n, fuel) ==
    IF fuel = 0 THEN <<n>> ELSE <<n>> \o TraverseList(D, D.children[n], fuel - 1)
TraverseList(D, l, fuel) ==
    IF l = <<>> THEN <<>>
    ELSE Traverse(D, Head(l), fuel) \o TraverseList(D, Tail(l), fuel)

DocOrder(D) == Traverse(D, Root, Len(D.kind))

----------------------------------------------------------------------------
(* Document trees the transforms are run on.  A tree is built in document *)
(* order: each new node becomes the last child of a node on the rightmost *)
(* path.                                                                   *)

Variant(k, a) == [kind |-> k, attr |-> a]

RefAttr(name) == [NoAttr EXCEPT !.refname = name]

\* section, title, subtitle, body element, transition
TransVariants ==
    {Variant(k, NoAttr) :
        k \in {"section", "title", "subtitle", "paragraph", "transition"}}

\* The refid of a propagated target: the id of the element behind it
PropagatedId == 99

\* body element, targets named "a" (one of them referenced by an earlier
\* transform), a propagated target (no name, no id, a refid), references by
\* name, a reference
\* without refname (a refuri link, as Decorations.generate_footer builds),
\* a reference resolved earlier: whatever resolves a reference removes its
\* refname, as visit_reference does, so a resolved reference has none
RefVariants ==
    {Variant("paragraph", NoAttr), Variant("target", NoAttr),
     Variant("target", [NoAttr EXCEPT !.referenced = TRUE]),
     Variant("target", [NoAttr EXCEPT !.refid = PropagatedId]),
     Variant("reference", RefAttr("a")), Variant("reference", RefAttr("d")),
     Variant("reference", RefAttr("u")), Variant("reference", NoAttr),
     Variant("reference", [NoAttr EXCEPT !.resolved = TRUE]),
     Variant("footnote_reference", RefAttr("a")),
     Variant("citation_reference", RefAttr("u"))}

\* a reference and a transition in one tree
MixedVariants ==
    {Variant("section", NoAttr), Variant("paragraph", NoAttr),
     Variant("transition", NoAttr), Variant("reference", RefAttr("u"))}

\* system messages of every level among sections and body elements
MsgVariants ==
    {Variant("section", NoAttr), Variant("paragraph", NoAttr)} \cup
    {Variant("system_message", [NoAttr EXCEPT !.level = l, !.text = "parse"]) :
        l \in Levels}

RootOnly ==
    [kind |-> <<"document">>, children |-> << <<>> >>, parent |-> <<None>>,
     attr |-> <<NoAttr>>]

\* What the document model lets a parent hold; a title only leads, a
\* subtitle only follows the leading title.
CanHold(t, p, v) ==
    LET pk == t.kind[p]
        ch == t.children[p]
    IN  \/ /\ pk \in {"document", "section"}
           /\ v.kind \in {"section", "paragraph", "transition", "target",
                          "system_message"}
        \/ /\ pk \in {"document", "section"}
           /\ v.kind = "title"
           /\ ch = <<>>
        \/ /\ pk \in {"document", "section"}
           /\ v.kind = "subtitle"
           /\ Len(ch) = 1
           /\ t.kind[ch[1]] = "title"
        \/ /\ pk = "paragraph"
           /\ v.kind \in RefKinds \cup {"target"}
        \/ /\ pk = "system_message"
           /\ v.kind \in {"paragraph", "system_message"}

RECURSIVE AncestorsOrSelf(_, _)
AncestorsOrSelf(t, n) ==
    IF n = None THEN {} ELSE {n} \cup AncestorsOrSelf(t, t.parent[n])

RightPath(t) == AncestorsOrSelf(t, Len(t.kind))

GenExtend(t, p, v) ==
    [kind |-> Append(t.kind, v.kind),
     children |-> [Append(t.children, <<>>) EXCEPT ![p] = Append(@, Len(t.kind) + 1)],
     parent |-> Append(t.parent, p),
     attr |-> Append(t.attr, v.attr)]

RECURSIVE GenTrees(_, _)
GenTrees(V, n) ==
    IF n = 0 THEN {RootOnly}
    ELSE LET S == GenTrees(V, n - 1)
         IN  S \cup UNION { UNION { {GenExtend(t, p, v) : v \in {w \in V : CanHold(t, p, w)}}
                                    : p \in RightPath(t) }
                            : t \in {s \in S : Len(s.kind) = n} }

\* The targets of a tree that have a name and an id, in document order
Targets(t) ==
    SelectSeq(DocOrder(t),
              LAMBDA n : t.kind[n] = "target" /\ t.attr[n].refid = None)

\* What the parser leaves in the document object: every target has an id
\* registered in document.ids; a name with one target maps to its id, a name
\* with several targets maps to None and the targets lose the name; "d" is
\* a name duplicated by implicit targets; a reference's rawsource is its own.
MakeDocument(t) ==
    LET tg == Targets(t)
        dup == Len(tg) > 1
        idOf(n) == ListIndex(tg, n) + 1
    IN  [kind |-> t.kind,
         children |-> t.children,
         parent |-> t.parent,
         attr |-> [n \in 1 .. Len(t.kind) |->
                     IF InList(tg, n)
                     THEN [t.attr[n] EXCEPT !.ids = <<idOf(n)>>,
                                            !.names = IF dup THEN <<>> ELSE <<"a">>]
                     ELSE IF t.kind[n] \in RefKinds
                     THEN [t.attr[n] EXCEPT !.rawsource = n]
                     ELSE t.attr[n]],
         nameids |-> IF tg = <<>> THEN [x \in {"d"} |-> None]
                     ELSE [x \in {"a", "d"} |->
                              IF x = "a" /\ ~dup THEN 1 ELSE None],
         ids |-> tg,
         transform_messages |-> <<>>]

FinalChecksInputs ==
    {MakeDocument(t) : t \in GenTrees(TransVariants, MaxTransNodes)
                             \cup GenTrees(RefVariants, MaxRefNodes)
                             \cup GenTrees(MixedVariants, MaxRefNodes)}

----------------------------------------------------------------------------
(* FinalCheckVisitor.visit_reference                                       *)

\* The for loop over unknown_reference_resolvers: answers[i] is what the
\* i-th resolver function returns for the node; the result is the list of
\* the answers of the functions that were called, the loop breaking at the
\* first true one.
\* A call is recorded as the position fn of the function in the list and
\* the value ret it returned.
Call(i, r) == [fn |-> i, ret |-> r]

\* CallResolvers without the break
RECURSIVE CallResolvers_NoBreak(_, _, _)
CallResolvers_NoBreak(answers, i, n) ==
    IF i > n THEN <<>>
    ELSE <<Call(i, answers[i])>> \o CallResolvers_NoBreak(answers, i + 1, n)

RECURSIVE CallResolvers(_, _, _)
CallResolvers(answers, i, n) ==
    IF i > n THEN <<>>
    ELSE IF answers[i] THEN <<Call(i, TRUE)>>
    ELSE <<Call(i, FALSE)>> \o CallResolvers(answers, i + 1, n)

\* The loop ended by break
Broke(calls) == calls # <<>> /\ calls[Len(calls)].ret

\* What a resolver function that returns true did to the node: nothing, or
\* what the transforms do when they resolve a reference.
ResolverEffect(D, node, effect) ==
    IF effect = "resolve"
    THEN [D EXCEPT !.attr[node].refname = NoName, !.attr[node].resolved = TRUE]
    ELSE D

\* Problematic with the two error texts exchanged
Problematic_TextsExchanged(D, node) ==
    LET refname == D.attr[node].refname
        D1 == IF refname \in DOMAIN D.nameids
              THEN ReporterMessage(D, ERROR_LEVEL, "Unknown target name")
              ELSE ReporterMessage(D, ERROR_LEVEL, "Duplicate target name")
        msg == Newest(D1)
        D2 == SetId(D1, msg)
        msgid == LastId(D2, msg)
        D3 == NewNode(D2, "problematic",
                      [NoAttr EXCEPT !.rawsource = D.attr[node].rawsource,
                                     !.refid = msgid])
        prb == Newest(D3)
        D4 == SetId(D3, prb)
        prbid == LastId(D4, prb)
        D5 == AddBackref(D4, msg, prbid)
    IN  ElementReplace(D5, D5.parent[node], node, prb)

\* The else branch of the for loop: the error, the problematic node, the
\* ids that link them, and the replacement
Problematic(D, node) ==
    LET refname == D.attr[node].refname
        D1 == IF refname \in DOMAIN D.nameids
              THEN ReporterMessage(D, ERROR_LEVEL, "Duplicate target name")
              ELSE ReporterMessage(D, ERROR_LEVEL, "Unknown target name")
        msg == Newest(D1)
        D2 == SetId(D1, msg)
        msgid == LastId(D2, msg)
        D3 == NewNode(D2, "problematic",
                      [NoAttr EXCEPT !.rawsource = D.attr[node].rawsource,
                                     !.refid = msgid])
        prb == Newest(D3)
        D4 == SetId(D3, prb)
        prbid == LastId(D4, prb)
        D5 == AddBackref(D4, msg, prbid)
    IN  ElementReplace(D5, D5.parent[node], node, prb)

\* Resolve without "del node['refname']"
Resolve_KeepsRefname(D, node, id) ==
    LET D2 == [D EXCEPT !.attr[node].refid = id]
        D3 == NoteReferencedBy(D2, At(D2.ids, id - 1))
    IN  [D3 EXCEPT !.attr[node].resolved = TRUE]

\* The else branch of "if id is None"
Resolve(D, node, id) ==
    LET D1 == [D EXCEPT !.attr[node].refname = NoName]
        D2 == [D1 EXCEPT !.attr[node].refid = id]
        D3 == NoteReferencedBy(D2, At(D2.ids, id - 1))
    IN  [D3 EXCEPT !.attr[node].resolved = TRUE]

\* visit_reference with the else of the for loop taken as the else of the
\* if inside it: the error is reported when a resolver returned true
visit_reference_ElseOfIf(D, node, calls, effect) ==
    IF D.attr[node].resolved \/ D.attr[node].refname = NoName
    THEN D
    ELSE LET refname == D.attr[node].refname
             id == NameidsGet(D, refname)
         IN  IF id = None
             THEN IF Broke(calls)
                  THEN Problematic(D, node)
                  ELSE D
             ELSE Resolve(D, node, id)

visit_reference(D, node, calls, effect) ==
    IF D.attr[node].resolved \/ D.attr[node].refname = NoName
    THEN D
    ELSE LET refname == D.attr[node].refname
             id == NameidsGet(D, refname)
         IN  IF id = None
             THEN IF Broke(calls)
                  THEN ResolverEffect(D, node, effect)
                  ELSE Problematic(D, node)
             ELSE Resolve(D, node, id)

\* Whether visit_reference gets as far as the resolver functions
AsksResolvers(D, node) ==
    /\ ~D.attr[node].resolved
    /\ D.attr[node].refname # NoName
    /\ NameidsGet(D, D.attr[node].refname) = None

----------------------------------------------------------------------------
(* FinalCheckVisitor.visit_transition                                      *)

\* Begins without the title and subtitle cases
Begins_IndexZeroOnly(D, node) ==
    ListIndex(D.children[D.parent[node]], node) = 0

\* The condition of the first if: the transition begins its parent
Begins(D, node) ==
    LET ch == D.children[D.parent[node]]
        index == ListIndex(ch, node)
    IN  \/ index = 0
        \/ /\ D.kind[At(ch, 0)] = "title"
           /\ \/ index = 1
              \/ /\ D.kind[At(ch, 1)] = "subtitle"
                 /\ index = 2

\* Adjacent with the elif never taken
Adjacent_Never(D, node) == FALSE

\* The condition of the elif: the sibling in front is a transition
Adjacent(D, node) ==
    LET ch == D.children[D.parent[node]]
        index == ListIndex(ch, node)
    IN  /\ ~Begins(D, node)
        /\ D.kind[At(ch, index - 1)] = "transition"

\* The assert of the first branch
BeginAssert(D, node) ==
    Begins(D, node) => D.kind[D.parent[node]] \in {"document", "section"}

\* Climb that stops at the parent of the transition
Climb_OneLevel(D, sibling, index) ==
    IF index = Len(D.children[D.parent[sibling]]) - 1
    THEN LET up == D.parent[sibling]
         IN  IF D.parent[up] = None
             THEN [atEnd |-> TRUE, sibling |-> up, index |-> index]
             ELSE [atEnd |-> FALSE, sibling |-> up,
                   index |-> ElementIndex(D, D.parent[up], up)]
    ELSE [atEnd |-> FALSE, sibling |-> sibling, index |-> index]

\* The while loop: climbs from sibling while it is the last node of its
\* parent; ends at the document, or at the node to move the transition behind
RECURSIVE Climb(_, _, _)
Climb(D, sibling, index) ==
    IF index = Len(D.children[D.parent[sibling]]) - 1
    THEN LET up == D.parent[sibling]
         IN  IF D.parent[up] = None
             THEN [atEnd |-> TRUE, sibling |-> up, index |-> index]
             ELSE Climb(D, up, ElementIndex(D, D.parent[up], up))
    ELSE [atEnd |-> FALSE, sibling |-> sibling, index |-> index]

\* The legality checks: the error, if any, is inserted in front of the
\* transition
CheckTransition(D, node) ==
    LET p == D.parent[node]
        index == ElementIndex(D, p, node)
    IN  IF Begins(D, node)
        THEN LET D1 == ReporterMessage(D, ERROR_LEVEL, "may not begin with a transition")
             IN  ElementInsert(D1, p, index, Newest(D1))
        ELSE IF Adjacent(D, node)
        THEN LET D1 == ReporterMessage(D, ERROR_LEVEL, "adjacent transitions are not allowed")
             IN  ElementInsert(D1, p, index, Newest(D1))
        ELSE D

\* PlaceTransition that moves the transition to the end of the document
\* instead of complaining
PlaceTransition_MovesAtEnd(D, node, index) ==
    LET p == D.parent[node]
    IN  IF index # Len(D.children[p]) - 1
        THEN D
        ELSE LET c == Climb(D, node, index)
             IN  IF c.atEnd
                 THEN IF p = Root THEN D
                      ELSE ElementAppend(ElementRemove(D, p, node), Root, node)
                 ELSE LET D1 == ElementRemove(D, p, node)
                      IN  ElementInsert(D1, D1.parent[c.sibling], c.index + 1, node)

\* PlaceTransition without the error at the end of the document
PlaceTransition_NoEndError(D, node, index) ==
    LET p == D.parent[node]
    IN  IF index # Len(D.children[p]) - 1
        THEN D
        ELSE LET c == Climb(D, node, index)
             IN  IF c.atEnd
                 THEN D
                 ELSE LET D1 == ElementRemove(D, p, node)
                      IN  ElementInsert(D1, D1.parent[c.sibling], c.index + 1, node)

\* PlaceTransition that puts the transition in front of the node the climb
\* found
PlaceTransition_InFront(D, node, index) ==
    LET p == D.parent[node]
    IN  IF index # Len(D.children[p]) - 1
        THEN D
        ELSE LET c == Climb(D, node, index)
             IN  IF c.atEnd
                 THEN LET D1 == ReporterMessage(D, ERROR_LEVEL, "may not end with a transition")
                      IN  ElementInsert(D1, p, ElementIndex(D1, p, node) + 1, Newest(D1))
                 ELSE LET D1 == ElementRemove(D, p, node)
                      IN  ElementInsert(D1, D1.parent[c.sibling], c.index, node)

\* The rest of the method, index being the updated index: leave, complain
\* at the end of the document, or move the transition behind the node the
\* climb found
PlaceTransition(D, node, index) ==
    LET p == D.parent[node]
    IN  IF index # Len(D.children[p]) - 1
        THEN D
        ELSE LET c == Climb(D, node, index)
             IN  IF c.atEnd
                 THEN LET D1 == ReporterMessage(D, ERROR_LEVEL, "may not end with a transition")
                      IN  ElementInsert(D1, p, ElementIndex(D1, p, node) + 1, Newest(D1))
                 ELSE LET D1 == ElementRemove(D, p, node)
                      IN  ElementInsert(D1, D1.parent[c.sibling], c.index + 1, node)

visit_transition(D, node) ==
    LET index == ElementIndex(D, D.parent[node], node)
        error == Begins(D, node) \/ Adjacent(D, node)
    IN  PlaceTransition(CheckTransition(D, node), node,
                        IF error THEN index + 1 ELSE index)

----------------------------------------------------------------------------
(* FinalChecks.apply after the walk: the unreferenced targets             *)

\* TargetNaming with the ids looked at before the names
TargetNaming_IdsFirst(D, target) ==
    IF D.attr[target].ids # <<>>
    THEN [by |-> "id", name |-> "", id |-> At(D.attr[target].ids, 0)]
    ELSE IF D.attr[target].names # <<>>
    THEN [by |-> "name", name |-> At(D.attr[target].names, 0), id |-> None]
    ELSE [by |-> "refid", name |-> "", id |-> D.attr[target].refid]

\* naming: the first name, else the first id, else the refid
TargetNaming(D, target) ==
    IF D.attr[target].names # <<>>
    THEN [by |-> "name", name |-> At(D.attr[target].names, 0), id |-> None]
    ELSE IF D.attr[target].ids # <<>>
    THEN [by |-> "id", name |-> "", id |-> At(D.attr[target].ids, 0)]
    ELSE [by |-> "refid", name |-> "", id |-> D.attr[target].refid]

\* reporter.info('Hyperlink target "%s" is not referenced.' % naming,
\* base_node=target)
ReportUnreferenced(D, target) ==
    LET D1 == ReporterMessage(D, INFO_LEVEL, "Hyperlink target is not referenced")
    IN  [D1 EXCEPT !.attr[Newest(D1)].naming = TargetNaming(D, target),
                   !.attr[Newest(D1)].base = target]

RECURSIVE CheckTargets(_, _)
CheckTargets(D, order) ==
    IF order = <<>> THEN D
    ELSE LET target == Head(order)
             D1 == IF D.kind[target] = "target" /\ ~D.attr[target].referenced
                   THEN ReportUnreferenced(D, target)
                   ELSE D
         IN  CheckTargets(D1, Tail(order))

----------------------------------------------------------------------------
(* Messages.apply, TestMessages.apply, SystemMessageFilterVisitor          *)

\* section += messages
RECURSIVE ElementExtend(_, _, _)
ElementExtend(D, p, l) ==
    IF l = <<>> THEN D ELSE ElementExtend(ElementAppend(D, p, Head(l)), p, Tail(l))

\* MessagesSelected without the test of msg.parent
MessagesSelected_AnyParent(D, threshold) ==
    SelectSeq(D.transform_messages, LAMBDA msg : D.attr[msg].level >= threshold)

MessagesSelected(D, threshold) ==
    SelectSeq(D.transform_messages,
              LAMBDA msg : D.attr[msg].level >= threshold /\ D.parent[msg] = None)

Messages_apply(D, threshold) ==
    LET messages == MessagesSelected(D, threshold)
    IN  IF messages # <<>>
        THEN LET D1 == NewNode(D, "section", [NoAttr EXCEPT !.text = "system-messages"])
                 section == Newest(D1)
                 D2 == NewNode(D1, "title", [NoAttr EXCEPT !.text = "Docutils System Messages"])
                 D3 == ElementAppend(D2, section, Newest(D2))
                 D4 == ElementExtend(D3, section, messages)
                 D5 == [D4 EXCEPT !.transform_messages = <<>>]
             IN  ElementAppend(D5, Root, section)
        ELSE D

\* TestMessages_loop without the test of msg.parent
RECURSIVE TestMessages_loop_AnyParent(_, _)
TestMessages_loop_AnyParent(D, l) ==
    IF l = <<>> THEN D
    ELSE TestMessages_loop_AnyParent(ElementAppend(D, Root, Head(l)), Tail(l))

RECURSIVE TestMessages_loop(_, _)
TestMessages_loop(D, l) ==
    IF l = <<>> THEN D
    ELSE LET msg == Head(l)
             D1 == IF D.parent[msg] = None THEN ElementAppend(D, Root, msg) ELSE D
         IN  TestMessages_loop(D1, Tail(l))

TestMessages_apply(D) == TestMessages_loop(D, D.transform_messages)

\* visit_system_message with <= for <
visit_system_message_AtThreshold(D, node, threshold) ==
    IF D.attr[node].level <= threshold
    THEN ElementRemove(D, D.parent[node], node)
    ELSE D

visit_system_message(D, node, threshold) ==
    IF D.attr[node].level < threshold
    THEN ElementRemove(D, D.parent[node], node)
    ELSE D

----------------------------------------------------------------------------
(* Inputs of the message transforms                                        *)

FilterInputs == {MakeDocument(t) : t \in GenTrees(MsgVariants, MaxMsgNodes)}

\* A message an earlier transform reported: queued in transform_messages,
\* and either left without parent or inserted into the document.
Pending(D, lvl, attached) ==
    LET D1 == ReporterMessage(D, lvl, "transform")
    IN  IF attached THEN ElementAppend(D1, Root, Newest(D1)) ELSE D1

RECURSIVE PendingDocs(_)
PendingDocs(n) ==
    IF n = 0
    THEN {MakeDocument(GenExtend(RootOnly, Root, Variant("paragraph", NoAttr)))}
    ELSE LET S == PendingDocs(n - 1)
         IN  S \cup {Pending(D, lvl, attached) :
                        D \in {E \in S : Len(E.transform_messages) = n - 1},
                        lvl \in Levels, attached \in BOOLEAN}

MessagesInputs == PendingDocs(MaxPending)

----------------------------------------------------------------------------
(* Node.walk(visitor): the visitor method is called on the node, then the *)
(* walk goes through a copy of the node's children.  A frame holds the    *)
(* copy and the position in it; the first frame is document.walk.         *)

StartWalk == << [snap |-> <<Root>>, i |-> 1] >>

Top == stack[Len(stack)]

HasCur == stack # <<>> /\ Top.i <= Len(Top.snap)

Cur == Top.snap[Top.i]

Walking == pc \in {"FinalChecks.walk", "FilterMessages.walk"}

\* child.walk(visitor) after the visit of the child left the document D
Descend(D) ==
    stack' = [stack EXCEPT ![Len(stack)].i = @ + 1]
                 \o << [snap |-> D.children[Cur], i |-> 1] >>

Record(op, node, calls, D) ==
    hist' = Append(hist, [op |-> op, node |-> node, calls |-> calls,
                          pre |-> doc, post |-> D])

\* the for loop over the children copy is through
WalkReturn ==
    /\ Walking
    /\ stack # <<>>
    /\ ~HasCur
    /\ stack' = SubSeq(stack, 1, Len(stack) - 1)
    /\ UNCHANGED <<doc, pc, resolvers, report_level, doc0, hist, io>>

\* SparseNodeVisitor: a node class the visitor has no method for
UnknownVisit ==
    /\ Walking
    /\ HasCur
    /\ pc = "FinalChecks.walk" => doc.kind[Cur] \notin RefKinds \cup {"transition"}
    /\ pc = "FilterMessages.walk" => doc.kind[Cur] # "system_message"
    /\ Descend(doc)
    /\ UNCHANGED <<doc, pc, resolvers, report_level, doc0, hist, io>>

VisitReference ==
    /\ pc = "FinalChecks.walk"
    /\ HasCur
    /\ doc.kind[Cur] \in RefKinds
    /\ \E answers \in [1 .. resolvers -> BOOLEAN], effect \in {"none", "resolve"} :
          LET calls == IF AsksResolvers(doc, Cur)
                       THEN CallResolvers(answers, 1, resolvers)
                       ELSE <<>>
              D == visit_reference(doc, Cur, calls, effect)
          IN  /\ doc' = D
              /\ Descend(D)
              /\ Record("visit_reference", Cur, calls, D)
    /\ UNCHANGED <<pc, resolvers, report_level, doc0, io>>

VisitTransition ==
    /\ pc = "FinalChecks.walk"
    /\ HasCur
    /\ doc.kind[Cur] = "transition"
    /\ IF BeginAssert(doc, Cur)
       THEN LET D == visit_transition(doc, Cur)
            IN  /\ doc' = D
                /\ Descend(D)
                /\ Record("visit_transition", Cur, <<>>, D)
                /\ UNCHANGED pc
       ELSE /\ pc' = "AssertionError"
            /\ UNCHANGED <<doc, stack, hist>>
    /\ UNCHANGED <<resolvers, report_level, doc0, io>>

\* FinalChecks.apply after document.walk returned
FinalChecksTargets ==
    /\ pc = "FinalChecks.walk"
    /\ stack = <<>>
    /\ doc' = CheckTargets(doc, DocOrder(doc))
    /\ pc' = "FinalChecks.done"
    /\ UNCHANGED <<stack, resolvers, report_level, doc0, hist, io>>

VisitSystemMessage ==
    /\ pc = "FilterMessages.walk"
    /\ HasCur
    /\ doc.kind[Cur] = "system_message"
    /\ LET D == visit_system_message(doc, Cur, report_level)
       IN  /\ doc' = D
           /\ Descend(D)
           /\ Record("visit_system_message", Cur, <<>>, D)
    /\ UNCHANGED <<pc, resolvers, report_level, doc0, io>>

\* FilterMessages.apply returns
FilterMessagesDone ==
    /\ pc = "FilterMessages.walk"
    /\ stack = <<>>
    /\ pc' = "FilterMessages.done"
    /\ UNCHANGED <<doc, stack, resolvers, report_level, doc0, hist, io>>

MessagesApply ==
    /\ pc = "Messages"
    /\ doc' = Messages_apply(doc, report_level)
    /\ pc' = "Messages.done"
    /\ UNCHANGED <<stack, resolvers, report_level, doc0, hist, io>>

TestMessagesApply ==
    /\ pc = "TestMessages"
    /\ doc' = TestMessages_apply(doc)
    /\ pc' = "TestMessages.done"
    /\ UNCHANGED <<stack, resolvers, report_level, doc0, hist, io>>

----------------------------------------------------------------------------

(* docutils/io.py: the Output and Input wrappers.  A Python string object  *)
(* is a record of its type ("unicode" or "str") and its items (code points *)
(* or bytes).  The variable io holds one sink, the source that reads what  *)
(* the sink produced, and the options and locale they run under.           *)

NoEncoding == "None"                      \* the option value None
Encodings == {"ascii", "latin-1", "utf-8"}
CodePoints == {65, 233, 195, 169, 8364}   \* A, e-acute, A-tilde, copyright, euro

Unicode(v) == [type |-> "unicode", v |-> v]
Str(v) == [type |-> "str", v |-> v]
NoneObject == [type |-> "NoneType", v |-> <<>>]

Failed == [ok |-> FALSE, v |-> <<>>]
Done(v) == [ok |-> TRUE, v |-> v]

\* the bytes an encoding has for one character, <<>> when it has none
EncodeChar(enc, c) ==
    CASE enc = "ascii"   -> IF c < 128 THEN <<c>> ELSE <<>>
      [] enc = "latin-1" -> IF c < 256 THEN <<c>> ELSE <<>>
      [] enc = "utf-8"   ->
            IF c < 128 THEN <<c>>
            ELSE IF c < 2048 THEN <<192 + (c \div 64), 128 + (c % 64)>>
            ELSE <<224 + (c \div 4096), 128 + ((c \div 64) % 64),
                   128 + (c % 64)>>

\* data.encode(enc): fails (UnicodeError) on the first character without bytes
RECURSIVE Encode(_, _)
Encode(enc, text) ==
    IF text = <<>> THEN Done(<<>>)
    ELSE LET b == EncodeChar(enc, Head(text))
             rest == Encode(enc, Tail(text))
         IN  IF b = <<>> \/ ~rest.ok THEN Failed ELSE Done(b \o rest.v)

Continuation(b) == b >= 128 /\ b < 192

\* unicode(data, 'utf-8')
RECURSIVE Utf8Decode(_)
Utf8Decode(b) ==
    IF b = <<>> THEN Done(<<>>)
    ELSE IF b[1] < 128 THEN
        LET rest == Utf8Decode(Tail(b))
        IN  IF rest.ok THEN Done(<<b[1]>> \o rest.v) ELSE Failed
    ELSE IF b[1] >= 194 /\ b[1] < 224 THEN
        IF Len(b) >= 2 /\ Continuation(b[2]) THEN
            LET rest == Utf8Decode(SubSeq(b, 3, Len(b)))
                c == (b[1] - 192) * 64 + (b[2] - 128)
            IN  IF rest.ok THEN Done(<<c>> \o rest.v) ELSE Failed
        ELSE Failed
    ELSE IF b[1] >= 224 /\ b[1] < 240 THEN
        IF Len(b) >= 3 /\ Continuation(b[2]) /\ Continuation(b[3]) THEN
            LET rest == Utf8Decode(SubSeq(b, 4, Len(b)))
                c == (b[1] - 224) * 4096 + (b[2] - 128) * 64 + (b[3] - 128)
            IN  IF rest.ok /\ c >= 2048 THEN Done(<<c>> \o rest.v) ELSE Failed
        ELSE Failed
    ELSE Failed

\* unicode(data, enc) on the bytes of a str
DecodeBytes(enc, b) ==
    CASE enc = "ascii"   -> IF \A i \in 1 .. Len(b) : b[i] < 128
                            THEN Done(b) ELSE Failed
      [] enc = "latin-1" -> Done(b)
      [] enc = "utf-8"   -> Utf8Decode(b)

\* what a method call leaves: the objects after it, the value it returns
\* and the exception it raises ("None" for a normal return)
Return(o, value) == [io |-> o, value |-> value, raise |-> "None"]
Raise(o, exception) == [io |-> o, value |-> NoneObject, raise |-> exception]

\* Input.decode: the encodings to try, in the order they are tried
DecodeEncodings_Utf8First(o) ==
    <<"utf-8", o.input_encoding>> \o o.locale \o <<"latin-1">>

DecodeEncodings(o) ==
    <<o.input_encoding, "utf-8">> \o o.locale \o <<"latin-1">>

\* Input.decode: the loop over the encodings, from position i on
RECURSIVE TryEncodings(_, _, _, _)
TryEncodings(o, encodings, i, data) ==
    IF i > Len(encodings) THEN Raise(o, "UnicodeError")
    ELSE IF encodings[i] = NoEncoding THEN
        TryEncodings(o, encodings, i + 1, data)
    ELSE IF data.type # "str" THEN Raise(o, "TypeError")
    ELSE LET decoded == DecodeBytes(encodings[i], data.v)
         IN  IF decoded.ok THEN Return(o, Unicode(decoded.v))
             ELSE TryEncodings(o, encodings, i + 1, data)

Input_decode(o, data) == TryEncodings(o, DecodeEncodings(o), 1, data)

FileOutput_open(o) == [o EXCEPT !.file = Str(<<>>), !.opened = TRUE]

FileOutput_close(o) == [o EXCEPT !.opened = FALSE]

FileOutput_write(o, data) ==
    IF o.output_encoding = NoEncoding THEN Raise(o, "TypeError")
    ELSE LET output == Encode(o.output_encoding, data.v)
         IN  IF ~output.ok THEN Raise(o, "UnicodeError")
             ELSE LET o1 == IF ~o.opened THEN FileOutput_open(o) ELSE o
                      o2 == [o1 EXCEPT !.file = Str(@.v \o output.v)]
                      o3 == IF o2.autoclose THEN FileOutput_close(o2) ELSE o2
                  IN  Return(o3, Str(output.v))

FileInput_read(o) ==
    LET data == o.file
        o1 == IF o.autoclose THEN [o EXCEPT !.source_closed = TRUE] ELSE o
    IN  Input_decode(o1, data)

StringOutput_write(o, data) ==
    IF o.output_encoding = NoEncoding
    THEN Return([o EXCEPT !.destination = data], data)
    ELSE LET output == Encode(o.output_encoding, data.v)
         IN  IF ~output.ok THEN Raise(o, "UnicodeError")
             ELSE Return([o EXCEPT !.destination = Str(output.v)],
                         Str(output.v))

\* the source of the StringInput is the destination of the StringOutput
StringInput_read(o) ==
    IF o.input_encoding = NoEncoding THEN Return(o, o.destination)
    ELSE Input_decode(o, o.destination)

NullOutput_write(o, data) == Return(o, NoneObject)

NullInput_read(o) == Return(o, Unicode(<<>>))

\* Spec runs no io
NoIO ==
    [kind |-> "None", output_encoding |-> NoEncoding,
     input_encoding |-> NoEncoding, locale |-> <<>>, text |-> <<>>,
     destination |-> NoneObject, file |-> Str(<<>>), opened |-> FALSE,
     autoclose |-> FALSE, source_closed |-> FALSE,
     returned |-> NoneObject, result |-> NoneObject]

\* the texts that are written
RECURSIVE Texts(_)
Texts(n) ==
    IF n = 0 THEN {<<>>}
    ELSE Texts(n - 1)
         \cup {Append(t, c) : t \in {x \in Texts(n - 1) : Len(x) = n - 1},
                              c \in CodePoints}

\* what nl_langinfo(CODESET), getlocale()[1] and getdefaultlocale()[1] add
\* to the encodings: nothing when they raise, else the locale's encoding,
\* which may be None
Locales == {<<>>} \cup {<<l, l, l>> : l \in {NoEncoding, "ascii"}}

\* a sink and its source as constructed: a FileOutput is given an open,
\* empty file object, or a path to a file that it opens on the first write
IOInputs ==
    {[NoIO EXCEPT !.kind = k, !.output_encoding = oe, !.input_encoding = ie,
                  !.locale = l, !.text = t]
        : k \in {"String", "Null"}, oe \in Encodings \cup {NoEncoding},
          ie \in Encodings \cup {NoEncoding}, l \in Locales,
          t \in Texts(MaxTextLen)}
    \cup
    {[NoIO EXCEPT !.kind = "File", !.output_encoding = oe,
                  !.input_encoding = ie, !.locale = l, !.text = t,
                  !.autoclose = a, !.opened = f[1], !.file = Str(f[2])]
        : oe \in Encodings \cup {NoEncoding},
          ie \in Encodings \cup {NoEncoding}, l \in Locales,
          t \in Texts(MaxTextLen), a \in BOOLEAN,
          f \in {<<TRUE, <<>> >>, <<FALSE, <<>> >>, <<FALSE, <<65>> >>}}

\* the sink's write(data) is called with the text
Write(kind, r) ==
    /\ pc = "Output.write"
    /\ io.kind = kind
    /\ io' = [r.io EXCEPT !.returned = r.value]
    /\ pc' = IF r.raise = "None" THEN "Input.read" ELSE r.raise
    /\ UNCHANGED <<doc, stack, resolvers, report_level, doc0, hist>>

\* the source's read() is called on what the sink produced
Read(kind, r) ==
    /\ pc = "Input.read"
    /\ io.kind = kind
    /\ io' = [r.io EXCEPT !.result = r.value]
    /\ pc' = IF r.raise = "None" THEN "io.done" ELSE r.raise
    /\ UNCHANGED <<doc, stack, resolvers, report_level, doc0, hist>>

FileOutputWrite == Write("File", FileOutput_write(io, Unicode(io.text)))

StringOutputWrite == Write("String", StringOutput_write(io, Unicode(io.text)))

NullOutputWrite == Write("Null", NullOutput_write(io, Unicode(io.text)))

FileInputRead == Read("File", FileInput_read(io))

StringInputRead == Read("String", StringInput_read(io))

NullInputRead == Read("Null", NullInput_read(io))

----------------------------------------------------------------------------

\* One transform is applied to one document.
Init ==
    /\ \/ /\ pc = "FinalChecks.walk"
          /\ doc \in FinalChecksInputs
          /\ stack = StartWalk
          /\ resolvers \in 0 .. MaxResolvers
          /\ report_level = 2
       \/ /\ pc = "FilterMessages.walk"
          /\ doc \in FilterInputs
          /\ stack = StartWalk
          /\ resolvers = 0
          /\ report_level \in Thresholds
       \/ /\ pc \in {"Messages", "TestMessages"}
          /\ doc \in MessagesInputs
          /\ stack = <<>>
          /\ resolvers = 0
          /\ report_level \in Thresholds
    /\ doc0 = doc
    /\ hist = <<>>
    /\ io = NoIO

Next ==
    \/ WalkReturn
    \/ UnknownVisit
    \/ VisitReference
    \/ VisitTransition
    \/ FinalChecksTargets
    \/ VisitSystemMessage
    \/ FilterMessagesDone
    \/ MessagesApply
    \/ TestMessagesApply

Spec == Init /\ [][Next]_vars

\* One text is written with a sink and read back with the source of the
\* same kind.
InitIO ==
    /\ pc = "Output.write"
    /\ io \in IOInputs
    /\ doc = MakeDocument(RootOnly)
    /\ stack = <<>>
    /\ resolvers = 0
    /\ report_level = 2
    /\ doc0 = doc
    /\ hist = <<>>

NextIO ==
    \/ FileOutputWrite
    \/ StringOutputWrite
    \/ NullOutputWrite
    \/ FileInputRead
    \/ StringInputRead
    \/ NullInputRead

SpecIO == InitIO /\ [][NextIO]_vars

TypeOK ==
    /\ pc \in {"FinalChecks.walk", "FilterMessages.walk", "Messages",
               "TestMessages", "FinalChecks.done", "FilterMessages.done",
               "Messages.done", "TestMessages.done", "AssertionError"}
    /\ Len(doc.kind) = Len(doc.children)
    /\ Len(doc.kind) = Len(doc.parent)
    /\ Len(doc.kind) = Len(doc.attr)

----------------------------------------------------------------------------
(* Properties of FinalCheckVisitor.visit_reference                         *)

\* document.walk(visitor) of FinalChecks.apply has returned
FinalChecksWalked ==
    \/ pc = "FinalChecks.walk" /\ stack = <<>>
    \/ pc = "FinalChecks.done"

\* The reference nodes of the tree the transform was given
References0 == {n \in Nodes(doc0) : doc0.kind[n] \in RefKinds}

\* A reference whose refname document.nameids maps to an id
Resolvable0(n) ==
    /\ doc0.attr[n].refname # NoName
    /\ NameidsGet(doc0, doc0.attr[n].refname) # None

\* C1: after the walk of FinalChecks every reference, footnote_reference or
\* citation_reference of the tree whose refname document.nameids maps to an
\* id is resolved, has that id as refid and has no refname any more.
C1_Resolved ==
    FinalChecksWalked =>
        \A n \in References0 :
            Resolvable0(n) =>
                /\ doc.attr[n].resolved
                /\ doc.attr[n].refid = NameidsGet(doc0, doc0.attr[n].refname)
                /\ doc.attr[n].refname = NoName

C1_Witness ==
    /\ FinalChecksWalked
    /\ \E n \in References0 :
          /\ Resolvable0(n)
          /\ doc.attr[n].resolved
          /\ doc.attr[n].refid = 1

\* A call of visit_reference on a node that is unresolved, has a refname
\* without id in nameids, and that no resolver function took
Unhandled(e) ==
    /\ e.op = "visit_reference"
    /\ ~e.pre.attr[e.node].resolved
    /\ e.pre.attr[e.node].refname # NoName
    /\ NameidsGet(e.pre, e.pre.attr[e.node].refname) = None
    /\ \A i \in 1 .. Len(e.calls) : ~e.calls[i].ret

\* The nodes and the queued messages a handler call created
Created(e) == (Len(e.pre.kind) + 1) .. Len(e.post.kind)
Reported(e) ==
    SubSeq(e.post.transform_messages, Len(e.pre.transform_messages) + 1,
           Len(e.post.transform_messages))

\* What C2 says of one call
ReplacedByProblematic(e) ==
    LET n == e.node
        p == e.pre.parent[n]
        i == ListIndex(e.pre.children[p], n)
        prb == At(e.post.children[p], i)
        msgs == Reported(e)
        name == e.pre.attr[n].refname
    IN  /\ e.post.children[p] = ListSet(e.pre.children[p], i, prb)
        /\ prb \in Created(e)
        /\ e.post.kind[prb] = "problematic"
        /\ e.post.parent[prb] = p
        /\ Len(msgs) = 1
        /\ {m \in Created(e) : e.post.kind[m] = "system_message"} = {msgs[1]}
        /\ e.post.attr[msgs[1]].level = ERROR_LEVEL
        /\ (e.post.attr[msgs[1]].text = "Duplicate target name")
               <=> (name \in DOMAIN e.pre.nameids)
        /\ (e.post.attr[msgs[1]].text = "Unknown target name")
               <=> (name \notin DOMAIN e.pre.nameids)
        /\ e.post.attr[msgs[1]].ids # <<>>
        /\ e.post.attr[prb].refid = e.post.attr[msgs[1]].ids[1]
        /\ At(e.post.ids, e.post.attr[prb].refid - 1) = msgs[1]
        /\ e.post.attr[prb].ids # <<>>
        /\ e.post.attr[msgs[1]].backrefs = <<e.post.attr[prb].ids[1]>>
        /\ At(e.post.ids, e.post.attr[prb].ids[1] - 1) = prb

\* C2: visit_reference on an unresolved reference whose refname has no id in
\* nameids and that no resolver function handles puts a problematic node at
\* the reference's place in its parent and reports exactly one error,
\* "Duplicate target name" exactly if the refname is a key of nameids and
\* "Unknown target name" otherwise; the problematic node's refid is the id
\* of the error and the error has a backref to the id of the problematic node.
C2_Problematic ==
    \A k \in 1 .. Len(hist) : Unhandled(hist[k]) => ReplacedByProblematic(hist[k])

C2_Witness ==
    /\ \E k \in 1 .. Len(hist) :
          /\ Unhandled(hist[k])
          /\ Len(hist[k].calls) > 0
          /\ hist[k].pre.attr[hist[k].node].refname \in DOMAIN hist[k].pre.nameids
          /\ ListIndex(hist[k].pre.children[hist[k].pre.parent[hist[k].node]], hist[k].node) > 0
    /\ \E k \in 1 .. Len(hist) :
          /\ Unhandled(hist[k])
          /\ hist[k].pre.attr[hist[k].node].refname \notin DOMAIN hist[k].pre.nameids

\* Resolved with a refid
ResolvedWithRefid(n) == doc.attr[n].resolved /\ doc.attr[n].refid # None

\* A problematic node that is linked to a diagnostic stands where n stood
ProblematicInPlace(n) ==
    LET p == doc0.parent[n]
        i == ListIndex(doc0.children[p], n)
    IN  /\ ~InList(doc.children[p], n)
        /\ \E prb \in Nodes(doc) :
              /\ doc.kind[prb] = "problematic"
              /\ doc.parent[prb] = p
              /\ InList(doc.children[p], prb)
              /\ doc.attr[prb].rawsource = doc0.attr[n].rawsource
              /\ doc.attr[prb].refid # None
              /\ doc.kind[At(doc.ids, doc.attr[prb].refid - 1)] = "system_message"

\* The statement C3 makes: once FinalChecks is through, every reference node
\* of the tree is resolved with a refid or replaced by a problematic node.
C3_AllResolvedOrReplaced ==
    pc = "FinalChecks.done" =>
        \A n \in References0 : ResolvedWithRefid(n) \/ ProblematicInPlace(n)

\* A resolver function returned true for the node
Accepted(n) ==
    \E k \in 1 .. Len(hist) :
        /\ hist[k].op = "visit_reference"
        /\ hist[k].node = n
        /\ Broke(hist[k].calls)

\* C3: once FinalChecks is through, every reference node of the tree that
\* was unresolved and had a refname is resolved with a refid, or was taken
\* by a resolver function, or is replaced by a problematic node linked to a
\* diagnostic; a reference node that was resolved already or had no refname
\* is as it was.
C3_NamedResolvedOrReplaced ==
    pc = "FinalChecks.done" =>
        \A n \in References0 :
            IF doc0.attr[n].resolved \/ doc0.attr[n].refname = NoName
            THEN /\ doc.attr[n] = doc0.attr[n]
                 /\ doc.parent[n] = doc0.parent[n]
                 /\ InList(doc.children[doc.parent[n]], n)
            ELSE \/ ResolvedWithRefid(n) /\ doc.attr[n].refname = NoName
                 \/ Accepted(n) /\ InList(doc.children[doc.parent[n]], n)
                 \/ ProblematicInPlace(n) /\ ~Accepted(n)

C3_Witness ==
    /\ pc = "FinalChecks.done"
    /\ resolvers > 0
    /\ \E n \in References0 : ProblematicInPlace(n)
    /\ \E n \in References0 : Accepted(n) /\ ~doc.attr[n].resolved

----------------------------------------------------------------------------
(* Properties of FinalCheckVisitor.visit_transition                        *)

Transitions(D) == {n \in Nodes(D) : D.kind[n] = "transition"}

\* The 0-based index of n in the children of its parent
IndexIn(D, n) == ListIndex(D.children[D.parent[n]], n)

Siblings(D, n) == D.children[D.parent[n]]

\* n leads its parent: first child, or right after the leading title, or
\* right after the leading title and subtitle
Leads(D, n) ==
    \/ IndexIn(D, n) = 0
    \/ /\ IndexIn(D, n) = 1
       /\ D.kind[At(Siblings(D, n), 0)] = "title"
    \/ /\ IndexIn(D, n) = 2
       /\ D.kind[At(Siblings(D, n), 0)] = "title"
       /\ D.kind[At(Siblings(D, n), 1)] = "subtitle"

\* the sibling right in front of n is a transition
FollowsTransition(D, n) ==
    /\ IndexIn(D, n) > 0
    /\ D.kind[At(Siblings(D, n), IndexIn(D, n) - 1)] = "transition"

IsLastChild(D, n) == IndexIn(D, n) = Len(Siblings(D, n)) - 1

\* n and all its ancestors are last children: n ends the document
RECURSIVE EndsDocument(_, _)
EndsDocument(D, n) ==
    \/ D.parent[n] = None
    \/ IsLastChild(D, n) /\ EndsDocument(D, D.parent[n])

\* C4: after the walk of FinalChecks no transition of the tree leads its
\* parent (first child, or right after a leading title, or right after a
\* leading title and subtitle), none directly follows a transition, and
\* none is the last node of the document.
C4_TransitionsLegal ==
    FinalChecksWalked =>
        \A n \in Transitions(doc) :
            InTree(doc, n) =>
                /\ ~Leads(doc, n)
                /\ ~FollowsTransition(doc, n)
                /\ ~EndsDocument(doc, n)

\* the node a handler call was made on, and the calls made on transitions
VisitedTransition(e) == e.op = "visit_transition"

\* the system_message nodes with text txt that a call created
CreatedMessages(e, txt) ==
    {m \in Created(e) : e.post.kind[m] = "system_message" /\ e.post.attr[m].text = txt}

C4_Witness ==
    /\ FinalChecksWalked
    /\ \E k \in 1 .. Len(hist) :
          VisitedTransition(hist[k]) /\ Leads(hist[k].pre, hist[k].node)
    /\ \E k \in 1 .. Len(hist) :
          VisitedTransition(hist[k]) /\ FollowsTransition(hist[k].pre, hist[k].node)
    /\ \E k \in 1 .. Len(hist) :
          VisitedTransition(hist[k]) /\ EndsDocument(hist[k].pre, hist[k].node)

\* What C5 says of one call
BeginErrorInFront(e) ==
    LET n == e.node
        p == e.pre.parent[n]
        i == IndexIn(e.pre, n)
        err == At(e.post.children[p], i)
    IN  /\ CreatedMessages(e, "may not begin with a transition") = {err}
        /\ e.post.attr[err].level = ERROR_LEVEL
        /\ e.post.parent[err] = p
        /\ SubSeq(e.post.children[p], 1, i) = SubSeq(e.pre.children[p], 1, i)
        /\ InTree(e.post, n)
        /\ e.post.parent[n] = p => At(e.post.children[p], i + 1) = n

\* C5: visit_transition on a transition at index 0 of its parent, or at
\* index 1 behind a title, or at index 2 behind a title and a subtitle,
\* inserts one "may not begin with a transition" error at the place of the
\* transition, right in front of it, and the transition stays in the tree.
C5_BeginError ==
    \A k \in 1 .. Len(hist) :
        (VisitedTransition(hist[k]) /\ Leads(hist[k].pre, hist[k].node))
            => BeginErrorInFront(hist[k])

\* a transition behind title and subtitle, and one that begins a section
\* and is moved out of it
C5_Witness ==
    /\ \E k \in 1 .. Len(hist) :
          /\ VisitedTransition(hist[k])
          /\ IndexIn(hist[k].pre, hist[k].node) = 2
          /\ Leads(hist[k].pre, hist[k].node)
    /\ \E k \in 1 .. Len(hist) :
          /\ VisitedTransition(hist[k])
          /\ Leads(hist[k].pre, hist[k].node)
          /\ hist[k].post.parent[hist[k].node] # hist[k].pre.parent[hist[k].node]

\* What C6 says of one call
AdjacentErrorBetween(e) ==
    LET n == e.node
        p == e.pre.parent[n]
        i == IndexIn(e.pre, n)
        err == At(e.post.children[p], i)
    IN  /\ CreatedMessages(e, "adjacent transitions are not allowed") = {err}
        /\ e.post.attr[err].level = ERROR_LEVEL
        /\ e.post.parent[err] = p
        /\ SubSeq(e.post.children[p], 1, i) = SubSeq(e.pre.children[p], 1, i)
        /\ e.post.kind[At(e.post.children[p], i - 1)] = "transition"
        /\ e.post.parent[n] = p => At(e.post.children[p], i + 1) = n

\* the transitions visit_transition has been called on
Visited == {hist[k].node : k \in {j \in 1 .. Len(hist) : VisitedTransition(hist[j])}}

\* C6: visit_transition on a transition whose sibling in front is a
\* transition inserts exactly one "adjacent transitions are not allowed"
\* error between the two; and whenever two transitions of the tree are
\* adjacent during the walk, the second one is still to be visited, so that
\* every such pair gets its error, a pair made by a promotion included.
C6_AdjacentError ==
    /\ \A k \in 1 .. Len(hist) :
          (VisitedTransition(hist[k]) /\ FollowsTransition(hist[k].pre, hist[k].node))
              => AdjacentErrorBetween(hist[k])
    /\ pc \in {"FinalChecks.walk", "FinalChecks.done"} =>
          \A n \in Transitions(doc) :
              (InTree(doc, n) /\ FollowsTransition(doc, n)) => n \notin Visited

\* an adjacent pair whose first transition was promoted out of a section
C6_Witness ==
    \E k \in 1 .. Len(hist) :
        LET e == hist[k]
            prev == At(Siblings(e.pre, e.node), IndexIn(e.pre, e.node) - 1)
        IN  /\ VisitedTransition(e)
            /\ FollowsTransition(e.pre, e.node)
            /\ e.pre.parent[prev] # doc0.parent[prev]

\* C7: visit_transition on a transition that is the last child of its parent
\* with every ancestor the last child of its own parent inserts a "may not
\* end with a transition" error as the sibling right behind the transition
\* and leaves the transition under its parent.
C7_EndError ==
    \A k \in 1 .. Len(hist) :
        LET e == hist[k]
            n == e.node
            p == e.pre.parent[n]
        IN  (VisitedTransition(e) /\ EndsDocument(e.pre, n)) =>
                /\ e.post.parent[n] = p
                /\ InList(e.post.children[p], n)
                /\ IndexIn(e.post, n) = Len(e.post.children[p]) - 2
                /\ CreatedMessages(e, "may not end with a transition")
                       = {At(e.post.children[p], IndexIn(e.post, n) + 1)}
                /\ e.post.attr[At(e.post.children[p], IndexIn(e.post, n) + 1)].level
                       = ERROR_LEVEL
                /\ SelectSeq(e.post.children[p], LAMBDA c : c \notin Created(e))
                       = e.pre.children[p]

\* a transition at the end of the document inside a section of a section
C7_Witness ==
    \E k \in 1 .. Len(hist) :
        LET e == hist[k]
        IN  /\ VisitedTransition(e)
            /\ EndsDocument(e.pre, e.node)
            /\ e.pre.parent[e.node] # Root
            /\ e.pre.parent[e.pre.parent[e.node]] # Root
            /\ CreatedMessages(e, "may not end with a transition") # {}

\* the nearest ancestor of n that is not the last child of its parent
RECURSIVE NearestNotLast(_, _)
NearestNotLast(D, n) ==
    IF IsLastChild(D, n) THEN NearestNotLast(D, D.parent[n]) ELSE n

\* C8: visit_transition takes a transition that is the last child of its
\* parent, but does not end the document, out of its parent and makes it the
\* sibling right behind the nearest ancestor that is not the last child of
\* its own parent; a transition that is not the last child of its parent
\* stays where it is, behind the error if one was inserted in front of it.
C8_Moved ==
    \A k \in 1 .. Len(hist) :
        LET e == hist[k]
            n == e.node
            p == e.pre.parent[n]
        IN  VisitedTransition(e) =>
                /\ (IsLastChild(e.pre, n) /\ ~EndsDocument(e.pre, n)) =>
                      LET a == NearestNotLast(e.pre, p)
                          q == e.pre.parent[a]
                      IN  /\ ~InList(e.post.children[p], n)
                          /\ e.post.parent[n] = q
                          /\ e.post.children[q]
                                 = ListInsert(e.pre.children[q], IndexIn(e.pre, a) + 1, n)
                          /\ At(e.post.children[q], IndexIn(e.post, a) + 1) = n
                /\ ~IsLastChild(e.pre, n) =>
                      /\ e.post.parent[n] = p
                      /\ SelectSeq(e.post.children[p], LAMBDA c : c \notin Created(e))
                             = e.pre.children[p]
                      /\ Len(e.post.children[p]) - Len(e.pre.children[p])
                             = IF Leads(e.pre, n) \/ FollowsTransition(e.pre, n)
                               THEN 1 ELSE 0
                      /\ IndexIn(e.post, n) - IndexIn(e.pre, n)
                             = Len(e.post.children[p]) - Len(e.pre.children[p])

\* a transition moved up two levels, and one that stays behind its error
C8_Witness ==
    /\ \E k \in 1 .. Len(hist) :
          LET e == hist[k]
          IN  /\ VisitedTransition(e)
              /\ IsLastChild(e.pre, e.node)
              /\ ~EndsDocument(e.pre, e.node)
              /\ e.post.parent[e.node] # e.pre.parent[e.pre.parent[e.node]]
              /\ e.post.parent[e.node] # e.pre.parent[e.node]
    /\ \E k \in 1 .. Len(hist) :
          LET e == hist[k]
          IN  /\ VisitedTransition(e)
              /\ ~IsLastChild(e.pre, e.node)
              /\ Created(e) # {}

----------------------------------------------------------------------------
(* Properties of FilterMessages and Messages                               *)

SystemMessages(D) == {n \in Nodes(D) : D.kind[n] = "system_message"}

\* C9: after FilterMessages with report level t no system_message with a
\* level below t is attached in the tree, and every system_message of the
\* tree with a level of t or more is still a child of the parent it had.
C9_Filtered ==
    pc = "FilterMessages.done" =>
        /\ \A n \in SystemMessages(doc) :
              doc.attr[n].level < report_level => ~InTree(doc, n)
        /\ \A n \in SystemMessages(doc0) :
              doc0.attr[n].level >= report_level =>
                  /\ doc.parent[n] = doc0.parent[n]
                  /\ InList(doc.children[doc.parent[n]], n)
                  /\ doc.attr[n] = doc0.attr[n]

\* threshold 3: a level 2 message is gone, a level 3 message is kept
C9_Witness ==
    /\ pc = "FilterMessages.done"
    /\ report_level = 3
    /\ \E n \in SystemMessages(doc0) : doc0.attr[n].level = 2 /\ ~InTree(doc, n)
    /\ \E n \in SystemMessages(doc0) : doc0.attr[n].level = 3 /\ InTree(doc, n)

\* the entries of the queue that Messages places
Qualifies(msg) ==
    doc0.attr[msg].level >= report_level /\ doc0.parent[msg] = None

\* C10: Messages.apply takes, in their order, the entries of
\* transform_messages with a level of at least the report level and
\* without parent; if there is one, it appends to the document one new
\* section of class "system-messages" whose children are the title
\* "Docutils System Messages" and then exactly those entries; if there is
\* none, the tree is as it was.
C10_Collected ==
    pc = "Messages.done" =>
        LET q == doc0.transform_messages
            sel == SelectSeq(q, Qualifies)
        IN  IF \E i \in 1 .. Len(q) : Qualifies(q[i])
            THEN LET section == doc.children[Root][Len(doc.children[Root])]
                 IN  /\ doc.children[Root] = Append(doc0.children[Root], section)
                     /\ section \notin Nodes(doc0)
                     /\ doc.kind[section] = "section"
                     /\ doc.attr[section].text = "system-messages"
                     /\ doc.parent[section] = Root
                     /\ Len(doc.children[section]) = Len(sel) + 1
                     /\ doc.kind[doc.children[section][1]] = "title"
                     /\ doc.attr[doc.children[section][1]].text = "Docutils System Messages"
                     /\ Tail(doc.children[section]) = sel
                     /\ \A i \in 1 .. Len(sel) : doc.parent[sel[i]] = section
                     /\ \A n \in Nodes(doc0) \ {Root} : doc.children[n] = doc0.children[n]
            ELSE /\ doc.kind = doc0.kind
                 /\ doc.children = doc0.children
                 /\ doc.parent = doc0.parent

\* an entry qualifies, another has the level but also a parent
C10_Witness ==
    /\ pc = "Messages.done"
    /\ Len(SelectSeq(doc0.transform_messages, Qualifies)) >= 1
    /\ \E i \in 1 .. Len(doc0.transform_messages) :
          LET msg == doc0.transform_messages[i]
          IN  doc0.attr[msg].level >= report_level /\ doc0.parent[msg] # None

----------------------------------------------------------------------------
(* Properties of FinalChecks.apply: the unreferenced targets               *)

\* the "Hyperlink target ... is not referenced" messages about target t
Unreferenced(t) ==
    {m \in Nodes(doc) :
        /\ doc.kind[m] = "system_message"
        /\ doc.attr[m].text = "Hyperlink target is not referenced"
        /\ doc.attr[m].base = t}

\* the first name, else the first id, else the refid of t
NamedRightly(m, t) ==
    LET a == doc.attr[t]
        g == doc.attr[m].naming
    IN  /\ a.names # <<>> => g.by = "name" /\ g.name = a.names[1]
        /\ (a.names = <<>> /\ a.ids # <<>>) => g.by = "id" /\ g.id = a.ids[1]
        /\ (a.names = <<>> /\ a.ids = <<>>) => g.by = "refid" /\ g.id = a.refid

\* a reference was resolved to target t during the walk
ResolvedTo(t) ==
    {hist[k].node : k \in {j \in 1 .. Len(hist) :
        /\ hist[j].op = "visit_reference"
        /\ ~hist[j].pre.attr[hist[j].node].resolved
        /\ hist[j].post.attr[hist[j].node].resolved
        /\ hist[j].post.attr[hist[j].node].refid # None
        /\ InList(doc.attr[t].ids, hist[j].post.attr[hist[j].node].refid)}}

\* C12: FinalChecks.apply reports the unreferenced targets only after the
\* walk is through: no such message exists during the walk; at the end a
\* target has one informational message exactly if it is not marked
\* referenced, so none if a reference was resolved to it during the walk,
\* wherever that reference stands; the message names the target by its first
\* name, else its first id, else its refid.
C12_UnreferencedTargets ==
    /\ pc = "FinalChecks.walk" =>
          \A t \in Nodes(doc) : Unreferenced(t) = {}
    /\ pc = "FinalChecks.done" =>
          \A t \in Nodes(doc) :
              IF doc.kind[t] = "target" /\ ~doc.attr[t].referenced
              THEN /\ Cardinality(Unreferenced(t)) = 1
                   /\ ResolvedTo(t) = {}
                   /\ \A m \in Unreferenced(t) :
                         /\ doc.attr[m].level = INFO_LEVEL
                         /\ InList(doc.transform_messages, m)
                         /\ NamedRightly(m, t)
              ELSE /\ Unreferenced(t) = {}
                   /\ doc.kind[t] = "target" \/ ResolvedTo(t) = {}

\* a target in front of the reference that is resolved to it
C12_Witness ==
    /\ pc = "FinalChecks.done"
    /\ \E t \in Nodes(doc0) :
          /\ doc0.kind[t] = "target"
          /\ ~doc0.attr[t].referenced
          /\ \E n \in ResolvedTo(t) : n > t
          /\ Unreferenced(t) = {}

----------------------------------------------------------------------------
(* Properties of TestMessages.apply                                        *)

Unattached0 ==
    SelectSeq(doc0.transform_messages, LAMBDA msg : doc0.parent[msg] = None)

----------------------------------------------------------------------------
(* Properties of the unknown_reference_resolvers loop                      *)

\* A call of visit_reference on an unresolved node whose refname has no id
NoId(e) ==
    /\ e.op = "visit_reference"
    /\ ~e.pre.attr[e.node].resolved
    /\ e.pre.attr[e.node].refname # NoName
    /\ NameidsGet(e.pre, e.pre.attr[e.node].refname) = None

\* C14: for a reference whose refname has no id in nameids, visit_reference
\* calls the resolver functions in list order and stops at the first that
\* returns true: none is called after it, no diagnostic is reported and the
\* node is not replaced; the diagnostic and the problematic node come only
\* when every function of the list was called and returned false.
C14_FirstResolverWins ==
    \A k \in 1 .. Len(hist) :
        LET e == hist[k]
            n == e.node
            p == e.pre.parent[n]
            someTrue == \E i \in 1 .. Len(e.calls) : e.calls[i].ret
            replaced == ~InList(e.post.children[p], n)
        IN  NoId(e) =>
                /\ Len(e.calls) <= resolvers
                /\ \A i \in 1 .. Len(e.calls) : e.calls[i].fn = i
                /\ \A i \in 1 .. (Len(e.calls) - 1) : ~e.calls[i].ret
                /\ someTrue =>
                      /\ Created(e) = {}
                      /\ Reported(e) = <<>>
                      /\ e.post.children = e.pre.children
                      /\ e.post.parent = e.pre.parent
                /\ ~someTrue =>
                      /\ Len(e.calls) = resolvers
                      /\ Len(Reported(e)) = 1
                      /\ replaced
                      /\ e.post.kind[At(e.post.children[p], ListIndex(e.pre.children[p], n))]
                             = "problematic"

\* the first of two functions returns true for one node, and both return
\* false for another
C14_Witness ==
    /\ resolvers = 2
    /\ \E k \in 1 .. Len(hist) :
          NoId(hist[k]) /\ hist[k].calls = <<Call(1, TRUE)>>
    /\ \E k \in 1 .. Len(hist) :
          NoId(hist[k]) /\ hist[k].calls = <<Call(1, FALSE), Call(2, FALSE)>>

----------------------------------------------------------------------------
(* What visit_transition leaves alone                                      *)

\* the nodes of D in document order that existed in document E
OldOrder(D, E) == SelectSeq(DocOrder(D), LAMBDA n : n \in Nodes(E))

\* the position of n in the document order of D
OrderIndex(D, n) == ListIndex(DocOrder(D), n)

\* the calls of visit_transition made on node t
VisitsOf(t) ==
    {k \in 1 .. Len(hist) : VisitedTransition(hist[k]) /\ hist[k].node = t}

\* C15: a call of visit_transition leaves the nodes that existed before it
\* in their document order (none is lost, doubled or moved past another),
\* and creates at most two diagnostics, all of them in the tree: at most one
\* "begin" or "adjacent" error, in front of the transition, and at most one
\* "end" error, behind it; every transition of the tree is visited exactly
\* once by the walk; a tree without references has its nodes in the same
\* document order all through the walk.
C15_OrderKept ==
    /\ \A k \in 1 .. Len(hist) :
          LET e == hist[k]
              front == CreatedMessages(e, "may not begin with a transition")
                         \cup CreatedMessages(e, "adjacent transitions are not allowed")
              behind == CreatedMessages(e, "may not end with a transition")
          IN  VisitedTransition(e) =>
                  /\ OldOrder(e.post, e.pre) = DocOrder(e.pre)
                  /\ Created(e) = front \cup behind
                  /\ Cardinality(front) <= 1
                  /\ Cardinality(behind) <= 1
                  /\ \A m \in front :
                        /\ InTree(e.post, m)
                        /\ OrderIndex(e.post, m) < OrderIndex(e.post, e.node)
                  /\ \A m \in behind :
                        /\ InTree(e.post, m)
                        /\ OrderIndex(e.post, m) > OrderIndex(e.post, e.node)
    /\ \A t \in Transitions(doc0) : Cardinality(VisitsOf(t)) <= 1
    /\ FinalChecksWalked =>
          \A t \in Transitions(doc0) : Cardinality(VisitsOf(t)) = 1
    /\ (pc \in {"FinalChecks.walk", "FinalChecks.done"} /\ References0 = {}) =>
          OldOrder(doc, doc0) = DocOrder(doc0)

\* one transition is promoted, another gets an error in front and behind
C15_Witness ==
    /\ FinalChecksWalked
    /\ \E k \in 1 .. Len(hist) :
          /\ VisitedTransition(hist[k])
          /\ hist[k].post.parent[hist[k].node] # hist[k].pre.parent[hist[k].node]
    /\ \E k \in 1 .. Len(hist) :
          /\ VisitedTransition(hist[k])
          /\ Cardinality(Created(hist[k])) = 2

----------------------------------------------------------------------------
(* Properties of the io wrappers: writing a text and reading it back       *)

\* the sink and the source were given the same encoding, and it is one
\* that Input.decode tries
SameEncoding ==
    /\ io.output_encoding = io.input_encoding
    /\ io.input_encoding \in Encodings

\* the encoding has bytes for every character of the text
Representable(enc, text) ==
    \A i \in 1 .. Len(text) :
        text[i] < (CASE enc = "ascii" -> 128
                     [] enc = "latin-1" -> 256
                     [] enc = "utf-8" -> 1114112)

\* C11 as stated: for every sink/source pair of the same kind, every
\* encoding E of the negotiation list and every text s, writing s under
\* output_encoding E and reading the produced data under input_encoding E
\* returns exactly s.
C11_RoundTripAll ==
    (pc = "io.done" /\ SameEncoding) => io.result = Unicode(io.text)

\* C11: for the StringOutput/StringInput and FileOutput/FileInput pairs,
\* every encoding E of the negotiation list and every text s that E can
\* represent, writing s under output_encoding E and reading the produced
\* data under input_encoding E returns exactly s, and neither call raises;
\* for a text E cannot represent the write raises UnicodeError and nothing
\* is read; NullOutput.write returns None and keeps nothing, and
\* NullInput.read returns the empty text whatever was written.
C11_RoundTrip ==
    /\ (pc = "io.done" /\ SameEncoding /\ io.kind \in {"String", "File"})
          => /\ io.result = Unicode(io.text)
             /\ Representable(io.input_encoding, io.text)
    /\ (SameEncoding /\ io.kind \in {"String", "File"}
          /\ Representable(io.input_encoding, io.text))
          => pc \in {"Output.write", "Input.read", "io.done"}
    /\ (pc = "UnicodeError" /\ SameEncoding)
          => /\ io.kind \in {"String", "File"}
             /\ ~Representable(io.input_encoding, io.text)
             /\ io.result = NoneObject
             /\ io.destination = NoneObject
    /\ (pc = "io.done" /\ io.kind = "Null")
          => /\ io.returned = NoneObject
             /\ io.destination = NoneObject
             /\ io.result = Unicode(<<>>)

\* a text with a euro sign and an e-acute went through a file as utf-8
C11_Witness ==
    /\ pc = "io.done"
    /\ SameEncoding
    /\ io.kind = "File"
    /\ io.input_encoding = "utf-8"
    /\ io.text = <<8364, 233>>
    /\ io.file = Str(<<226, 130, 172, 195, 169>>)
    /\ io.result = Unicode(io.text)

====
